---- MODULE Spec2Model ----
(***************************************************************************)
(* A model of Python/satfire.py (SatfireDatabases): the recursive          *)
(* find_mergers query, the grouped aggregate of                            *)
(* total_fire_power_time_series, the burn-day grouping of                  *)
(* total_fire_power_by_day, the day-range filter of __get_daily_data and   *)
(* the calendar / colour bookkeeping of make_daily_fire_power_plot.        *)
(*                                                                         *)
(* Each part has its own specification (SpecClosure, SpecAgg, SpecDay,     *)
(* SpecPlot); the variables of the other parts keep their empty values.    *)
(***************************************************************************)
EXTENDS Integers, Sequences, FiniteSets, TLC

VARIABLES
    pc,            \* position of the running handler
    \* ---- find_mergers (lines 55-65)
    fires,         \* fires table: fire_id -> merged_into
    root,          \* the bound parameter of VALUES(?)
    queue,         \* rows of find_mergers waiting to be expanded
    find_mergers,  \* rows of find_mergers already produced: id -> how often
    steps,         \* number of rows expanded so far
    closure,       \* result of SELECT fire_id FROM fires WHERE fire_id IN find_mergers
    \* ---- the grouped aggregate (lines 50-54, 66-78)
    joined,        \* rows of associations JOIN ff.clusters, in scan order
    pos,           \* number of joined rows scanned
    acc,           \* the groups so far: start_time -> [tp, maxt]
    df,            \* the DataFrame returned
    \* ---- total_fire_power_by_day and __get_daily_data (lines 88-134)
    satellite,     \* df.satellite
    break_hour_z,  \* the hour of the day at which burn days change
    res,           \* the groups of df.groupby(to_date), ascending by key
    start,         \* <<>> for None, <<day>> for a day
    end,           \* <<>> for None, <<day>> for a day
    daily_data,    \* the tuple of (day, data) returned
    sat,           \* the satellite label returned
    \* ---- make_daily_fire_power_plot (lines 136-211)
    db,            \* fire_id -> what total_fire_power_time_series returns for it
    fire_id,       \* the argument, as the tuple of lines 155-158
    daily_datas,   \* one tuple of (day, data) per fire id
    sats,          \* one satellite label per fire id
    max_power,     \* the common vertical scale
    all_days,      \* the common calendar
    axs,           \* number of panels in the array plt.subplots returned
    colors,        \* the colour map: key -> colour
    draws,         \* how many colours were drawn from the property cycle
    plotted        \* the ax.plot calls made so far

closureVars == <<fires, root, queue, find_mergers, steps>>
aggVars == <<joined, pos, acc>>
dayVars == <<satellite, break_hour_z, res, start, end, daily_data, sat>>
plotVars == <<db, fire_id, daily_datas, sats, max_power, all_days, axs,
              colors, draws, plotted>>
vars == <<pc, closureVars, closure, aggVars, df, dayVars, plotVars>>

IdleClosure ==
    /\ fires = <<>>
    /\ root = 0
    /\ queue = <<>>
    /\ find_mergers = <<>>
    /\ steps = 0

IdleAgg ==
    /\ joined = <<>>
    /\ pos = 0
    /\ acc = <<>>

IdleDay ==
    /\ satellite = ""
    /\ break_hour_z = 0
    /\ res = <<>>
    /\ start = <<>>
    /\ end = <<>>
    /\ daily_data = <<>>
    /\ sat = ""

IdlePlot ==
    /\ db = <<>>
    /\ fire_id = <<>>
    /\ daily_datas = <<>>
    /\ sats = <<>>
    /\ max_power = 0
    /\ all_days = <<>>
    /\ axs = 0
    /\ colors = <<>>
    /\ draws = 0
    /\ plotted = <<>>

----------------------------------------------------------------------------
(* Bounds *)

MaxFire == 3
MaxSteps == 6
MaxJoined == 3
MaxRows == 3
MaxSeries == 2

----------------------------------------------------------------------------
(* Helpers *)

Min(S) == CHOOSE x \in S : \A y \in S : x <= y
Max(S) == CHOOSE x \in S : \A y \in S : x >= y

RECURSIVE SortedSeq(_)
\* the elements of a finite set of integers in ascending order
SortedSeq(S) == IF S = {} THEN <<>> ELSE <<Min(S)>> \o SortedSeq(S \ {Min(S)})

----------------------------------------------------------------------------
(* The recursive common table expression find_mergers, lines 55-65.        *)
(* SQLite evaluates a recursive CTE with a queue: the initial select is    *)
(* put on the queue; then one row at a time is taken off the queue, added  *)
(* to the CTE's rows, and the recursive select is run with that row as the *)
(* only row of find_mergers, its results going to the queue. UNION ALL     *)
(* keeps every row: nothing is compared with the rows already produced.    *)

FireIds == 1..MaxFire
\* merged_into of a fire that never merged
NULL == 0

FiresTables ==
    UNION {[S -> FireIds \cup {NULL}] : S \in SUBSET FireIds}

\* fault injection: the recursive select matches on fire_id instead of merged_into
MergersSelf(x) == {f \in DOMAIN fires : f = x /\ fires[f] # NULL}

\* SELECT fire_id FROM fires, find_mergers WHERE merged_into = find_mergers.x
Mergers(x) == {f \in DOMAIN fires : fires[f] = x}

\* SELECT fire_id FROM fires WHERE fire_id IN find_mergers
Selected == {f \in DOMAIN fires : find_mergers[f] > 0}

InitClosure ==
    /\ fires \in FiresTables
    /\ root \in FireIds
    /\ queue = <<root>>
    /\ find_mergers = [f \in FireIds |-> 0]
    /\ steps = 0
    /\ closure = {}
    /\ pc = "cte"
    /\ IdleAgg
    /\ df = <<>>
    /\ IdleDay
    /\ IdlePlot

\* one row leaves the queue and is expanded by the recursive select
CteStep ==
    /\ pc = "cte"
    /\ queue # <<>>
    /\ steps < MaxSteps
    /\ find_mergers' = [find_mergers EXCEPT ![Head(queue)] = @ + 1]
    /\ queue' = Tail(queue) \o SortedSeq(Mergers(Head(queue)))
    /\ steps' = steps + 1
    /\ UNCHANGED <<pc, fires, root, closure, aggVars, df, dayVars, plotVars>>

\* the queue is empty: the IN subquery is complete and the outer select runs
SelectClosure ==
    /\ pc = "cte"
    /\ queue = <<>>
    /\ closure' = Selected
    /\ pc' = "done"
    /\ UNCHANGED <<closureVars, aggVars, df, dayVars, plotVars>>

NextClosure == CteStep \/ SelectClosure

SpecClosure == InitClosure /\ [][NextClosure]_vars

----------------------------------------------------------------------------
(* Merge closure as the data model defines it *)

RECURSIVE ChainReaches(_, _, _)
\* following merged_into from f arrives at r within n steps
ChainReaches(f, r, n) ==
    /\ n > 0
    /\ f \in DOMAIN fires
    /\ \/ fires[f] = r
       \/ ChainReaches(fires[f], r, n - 1)

MergeClosure(r) == {r} \cup {f \in DOMAIN fires : ChainReaches(f, r, MaxFire)}

Acyclic == \A f \in DOMAIN fires : ~ChainReaches(f, f, MaxFire)

\* the merged_into relation has a cycle that the inverse relation reaches from r
CycleReachable(r) ==
    \E f \in MergeClosure(r) : f \in DOMAIN fires /\ ChainReaches(f, f, MaxFire)

Chain321 == (1 :> NULL) @@ (2 :> 1) @@ (3 :> 2)

\* C1: on an acyclic merged_into forest and a root that is a fire of the
\* table, the ids the query selects are exactly the root and every fire whose
\* merged_into chain reaches the root; for the chain 3->2->1 the roots 1, 2, 3
\* give {1,2,3}, {2,3}, {3}, and a fire nothing merged into gives itself.
\* (On such a table the expansion ends by itself, before MaxSteps.)
C1_ClosureExact ==
    (Acyclic /\ root \in DOMAIN fires) =>
        /\ queue # <<>> => steps < MaxSteps
        /\ pc = "done" =>
              /\ closure = MergeClosure(root)
              /\ (Mergers(root) = {}) => closure = {root}
              /\ (fires = Chain321 /\ root = 1) => closure = {1, 2, 3}
              /\ (fires = Chain321 /\ root = 2) => closure = {2, 3}
              /\ (fires = Chain321 /\ root = 3) => closure = {3}

C1_Witness ==
    /\ pc = "done"
    /\ fires = Chain321
    /\ root = 2
    /\ closure = {2, 3}

\* C2: when a merged_into cycle is reachable from the queried id, the
\* expansion reaches a fixed point: no id is expanded a second time, so at
\* most one row per fire (and the root) is ever expanded.
C2_NoReExpansion ==
    CycleReachable(root) =>
        /\ \A f \in FireIds : find_mergers[f] <= 1
        /\ steps <= Cardinality(DOMAIN fires) + 1

\* C3: a root that is no fire_id of the table resolves to the empty set, also
\* when other fires carry that id as merged_into.
C3_MissingRootEmpty ==
    (pc = "done" /\ root \notin DOMAIN fires) => closure = {}

----------------------------------------------------------------------------
(* pandas / datetime values.  A Timestamp is kept by its calendar fields;  *)
(* the date is the ordinal of the day (days since 1970-01-01), which       *)
(* orders and compares as the calendar date does.                          *)

\* pd.to_datetime(st, unit='s'), line 72
to_datetime(st) ==
    [date |-> st \div 86400,
     hour |-> (st % 86400) \div 3600,
     minute |-> (st % 3600) \div 60,
     second |-> st % 60]

\* Timestamp comparison: by date, then by time of day
TsLess(a, b) ==
    \/ a.date < b.date
    \/ /\ a.date = b.date
       /\ \/ a.hour < b.hour
          \/ a.hour = b.hour /\ a.minute < b.minute
          \/ a.hour = b.hour /\ a.minute = b.minute /\ a.second < b.second

----------------------------------------------------------------------------
(* The outer query of total_fire_power_time_series, lines 50-54 and 66-67, *)
(* and the DataFrame built from it, lines 70-78.  The joined rows are      *)
(* scanned one at a time in the order the join produces them; a row whose  *)
(* associations.fire_id is in the subquery's result is added to the group  *)
(* of its start_time; the groups are emitted in ascending start_time.      *)

AggFires == {1, 2}
AggTimes == {86399, 86400}
Powers == {1, 2}
Temps == {1, 2}

JoinedRows ==
    [fire_id : AggFires, start_time : AggTimes, power : Powers,
     max_temperature : Temps]

JoinedTables == UNION {[1..n -> JoinedRows] : n \in 0..MaxJoined}

\* WHERE associations.fire_id in (...), line 55
InSubquery(row) == row.fire_id \in closure

\* fault injection: MAX replaced by the value of the last row of the group
AccumulateLast(a, row) ==
    IF row.start_time \in DOMAIN a
    THEN [a EXCEPT ![row.start_time] =
             [tp |-> @.tp + row.power, maxt |-> row.max_temperature]]
    ELSE a @@ (row.start_time :> [tp |-> row.power, maxt |-> row.max_temperature])

\* SUM(power), MAX(max_temperature) ... GROUP BY st, lines 51-53 and 66
Accumulate(a, row) ==
    IF row.start_time \in DOMAIN a
    THEN [a EXCEPT ![row.start_time] =
             [tp |-> @.tp + row.power,
              maxt |-> IF row.max_temperature > @.maxt
                       THEN row.max_temperature ELSE @.maxt]]
    ELSE a @@ (row.start_time :> [tp |-> row.power, maxt |-> row.max_temperature])

\* ORDER BY st ASC, then to_datetime and rename, lines 67-78
RECURSIVE Emit(_)
Emit(a) ==
    IF DOMAIN a = {} THEN <<>>
    ELSE LET t == Min(DOMAIN a) IN
         <<[scan_start |-> to_datetime(t),
            total_power |-> a[t].tp,
            maximum_temperature |-> a[t].maxt]>>
         \o Emit([u \in DOMAIN a \ {t} |-> a[u]])

InitAgg ==
    /\ closure \in SUBSET AggFires
    /\ joined \in JoinedTables
    /\ pos = 0
    /\ acc = <<>>
    /\ df = <<>>
    /\ pc = "scan"
    /\ IdleClosure
    /\ IdleDay
    /\ IdlePlot

\* the next joined row is read
ScanRow ==
    /\ pc = "scan"
    /\ pos < Len(joined)
    /\ pos' = pos + 1
    /\ acc' = IF InSubquery(joined[pos + 1])
              THEN Accumulate(acc, joined[pos + 1])
              ELSE acc
    /\ UNCHANGED <<pc, closureVars, closure, joined, df, dayVars, plotVars>>

\* every row is read: the groups become the DataFrame
EmitFrame ==
    /\ pc = "scan"
    /\ pos = Len(joined)
    /\ df' = Emit(acc)
    /\ pc' = "done"
    /\ UNCHANGED <<closureVars, closure, aggVars, dayVars, plotVars>>

NextAgg == ScanRow \/ EmitFrame

SpecAgg == InitAgg /\ [][NextAgg]_vars

\* the joined rows of the closure's fires observed at start_time t
Observed(t) ==
    {i \in 1..Len(joined) :
        joined[i].fire_id \in closure /\ joined[i].start_time = t}

RECURSIVE SumPower(_)
SumPower(I) ==
    IF I = {} THEN 0
    ELSE LET i == CHOOSE j \in I : TRUE IN joined[i].power + SumPower(I \ {i})

ObservedTimes == {t \in AggTimes : Observed(t) # {}}

\* C4: the frame has exactly one row per distinct start_time observed for a
\* fire of the closure, holding the sum of power and the maximum of
\* max_temperature over exactly those observations, in strictly ascending
\* scan start; the order in which the rows (and so the closure's members)
\* are met does not matter: every order of the table is an initial state.
C4_AggregateExact ==
    pc = "done" =>
        /\ {df[k].scan_start : k \in 1..Len(df)}
              = {to_datetime(t) : t \in ObservedTimes}
        /\ Len(df) = Cardinality(ObservedTimes)
        /\ \A k \in 1..Len(df) : \A t \in ObservedTimes :
              df[k].scan_start = to_datetime(t) =>
                 /\ df[k].total_power = SumPower(Observed(t))
                 /\ df[k].maximum_temperature
                       = Max({joined[i].max_temperature : i \in Observed(t)})
        /\ \A k \in 1..(Len(df) - 1) : TsLess(df[k].scan_start, df[k + 1].scan_start)

\* two fires of the closure observed at one start_time, a second start_time
\* besides
C4_Witness ==
    /\ pc = "done"
    /\ closure = {1, 2}
    /\ Len(df) = 2
    /\ \E t \in AggTimes : {joined[i].fire_id : i \in Observed(t)} = {1, 2}

----------------------------------------------------------------------------
(* total_fire_power_by_day, lines 101-119, and __get_daily_data, lines     *)
(* 121-134.  The frame comes from total_fire_power_time_series: its rows   *)
(* have distinct scan starts in ascending order (GROUP BY st ORDER BY st). *)

\* 2023-05-31T23:59:59, 2023-06-01T00:00:00, T10:00:00, T13:30:15, T14:00:00,
\* 2023-06-02T11:59:59, as epoch seconds
DayTimes ==
    {1685577599, 1685577600, 1685613600, 1685626215, 1685628000, 1685707199}

Payloads ==
    {[total_power |-> 1, maximum_temperature |-> 2],
     [total_power |-> 2, maximum_temperature |-> 1]}

Satellites == {"G16", "G17"}

\* the frames of at most MaxRows rows over DayTimes
Frames ==
    UNION {
        {[k \in 1..Cardinality(T) |->
             [scan_start |-> to_datetime(SortedSeq(T)[k]),
              total_power |-> p[k].total_power,
              maximum_temperature |-> p[k].maximum_temperature]]
         : p \in [1..Cardinality(T) -> Payloads]}
        : T \in {U \in SUBSET DayTimes : Cardinality(U) <= MaxRows}}

\* val - timedelta(hours=h), lines 104 and 114: minus h hours is minus one
\* day plus (86400 - 3600 h) seconds; the sum is normalised into days and
\* seconds of the day
MinusHours(val, h) ==
    LET s == 3600 * val.hour + 60 * val.minute + val.second + (86400 - 3600 * h)
        r == s % 86400
    IN  [date |-> val.date - 1 + s \div 86400,
         hour |-> r \div 3600,
         minute |-> (r % 3600) \div 60,
         second |-> r % 60]

\* fault injection: the minutes are weighted like hours
to_second_of_burn_day_3600(val, h) ==
    LET begin == MinusHours(val, h)
    IN  3600 * begin.hour + 3600 * begin.minute + begin.second

\* to_second_of_burn_day, lines 103-108
to_second_of_burn_day(val, h) ==
    LET begin == MinusHours(val, h)
    IN  3600 * begin.hour + 60 * begin.minute + begin.second

\* fault injection: the date is taken before the shift
to_date_unshifted(val, h) == val.date

\* to_date, lines 113-114
to_date(val, h) == MinusHours(val, h).date

\* df['second of burn day'] = df['scan start'].map(...), line 110
WithSecondOfBurnDay(frame, h) ==
    [k \in 1..Len(frame) |->
        [scan_start |-> frame[k].scan_start,
         total_power |-> frame[k].total_power,
         maximum_temperature |-> frame[k].maximum_temperature,
         second_of_burn_day |-> to_second_of_burn_day(frame[k].scan_start, h)]]

\* df.groupby(to_date), line 116: one group per key, the keys ascending, the
\* rows of a group in the frame's order.  pandas maps the function over the
\* DatetimeIndex as a whole, where .date (line 114) is the array of the
\* dates, so the keys are the dates of the shifted scan starts.
GroupBy(frame, h) ==
    LET keys == SortedSeq({to_date(frame[k].scan_start, h) : k \in 1..Len(frame)})
    IN  [g \in 1..Len(keys) |->
            [day |-> keys[g],
             data |-> SelectSeq(frame,
                         LAMBDA r : to_date(r.scan_start, h) = keys[g])]]

\* fault injection: the start bound is exclusive
GetDailyDataStrict(groups, s, e) ==
    LET d1 == IF s # <<>>
              THEN SelectSeq(groups, LAMBDA g : g.day > s[1]) ELSE groups
    IN  IF e # <<>> THEN SelectSeq(d1, LAMBDA g : g.day <= e[1]) ELSE d1

\* the three ifs of __get_daily_data, lines 125-132
GetDailyData(groups, s, e) ==
    LET d1 == IF s # <<>>
              THEN SelectSeq(groups, LAMBDA g : g.day >= s[1]) ELSE groups
        d2 == IF e # <<>>
              THEN SelectSeq(d1, LAMBDA g : g.day <= e[1]) ELSE d1
    IN  IF s = <<>> /\ e = <<>> THEN groups ELSE d2

\* the burn days the frames can fall on, and None
DayBounds == {<<>>} \cup {<<d>> : d \in 19508..19510}

InitDay ==
    /\ df \in Frames
    /\ satellite \in Satellites
    /\ break_hour_z \in 0..23
    /\ res = <<>>
    /\ start = <<>>
    /\ end = <<>>
    /\ daily_data = <<>>
    /\ sat = ""
    /\ pc = "by_day"
    /\ closure = {}
    /\ IdleClosure
    /\ IdleAgg
    /\ IdlePlot

\* total_fire_power_by_day: the new column, then the grouping
TotalFirePowerByDay ==
    /\ pc = "by_day"
    /\ df' = WithSecondOfBurnDay(df, break_hour_z)
    /\ res' = GroupBy(df', break_hour_z)
    /\ pc' = "filter"
    /\ UNCHANGED <<closureVars, closure, aggVars, satellite, break_hour_z,
                   start, end, daily_data, sat, plotVars>>

\* the rest of __get_daily_data, called with start and end
FilterDays ==
    /\ pc = "filter"
    /\ \E s \in DayBounds, e \in DayBounds :
          /\ start' = s
          /\ end' = e
          /\ daily_data' = GetDailyData(res, s, e)
    /\ sat' = satellite
    /\ pc' = "done"
    /\ UNCHANGED <<closureVars, closure, aggVars, df, satellite, break_hour_z,
                   res, plotVars>>

NextDay == TotalFirePowerByDay \/ FilterDays

SpecDay == InitDay /\ [][NextDay]_vars

\* the scan time of a Timestamp in epoch seconds
Epoch(ts) == 86400 * ts.date + 3600 * ts.hour + 60 * ts.minute + ts.second

\* the calendar date of (scan time minus break_hour_z hours)
ShiftedDate(ts) == (Epoch(ts) - 3600 * break_hour_z) \div 86400

RECURSIVE Concat(_)
\* the rows of the groups, one group after the other
Concat(groups) ==
    IF groups = <<>> THEN <<>> ELSE Head(groups).data \o Concat(Tail(groups))

\* C5: the groups partition the rows by burn day: every row is in exactly
\* one group, a group's key is the date of (scan time - break_hour_z hours)
\* of each of its rows, no two groups have the same key, and the groups in
\* ascending day order, concatenated, are the rows in ascending time order.
C5_PartitionByBurnDay ==
    pc \in {"filter", "done"} =>
        /\ \A k \in 1..Len(df) :
              Cardinality({g \in 1..Len(res) :
                  \E j \in 1..Len(res[g].data) : res[g].data[j] = df[k]}) = 1
        /\ \A g \in 1..Len(res) :
              /\ res[g].data # <<>>
              /\ \A j \in 1..Len(res[g].data) :
                    res[g].day = ShiftedDate(res[g].data[j].scan_start)
        /\ \A g \in 1..(Len(res) - 1) : res[g].day < res[g + 1].day
        /\ Concat(res) = df
        /\ \A k \in 1..(Len(df) - 1) : TsLess(df[k].scan_start, df[k + 1].scan_start)

\* rows of one UTC date split over two burn days, and rows of two UTC dates
\* in one burn day
C5_Witness ==
    /\ pc = "filter"
    /\ Len(df) = 3
    /\ Len(res) = 2
    /\ df[1].scan_start.date = df[2].scan_start.date
    /\ ShiftedDate(df[1].scan_start) # ShiftedDate(df[2].scan_start)
    /\ df[2].scan_start.date # df[3].scan_start.date
    /\ ShiftedDate(df[2].scan_start) = ShiftedDate(df[3].scan_start)

T10 == to_datetime(1685613600)
T14 == to_datetime(1685628000)

\* C8: the second of burn day is an integer of 0..86399, equal to
\* (scan time - 3600 break_hour_z) mod 86400, so 0 at the shifted midnight;
\* with break_hour_z = 12 the rows at 10:00Z and 14:00Z of one date get
\* 79200 and 7200 and lie on two consecutive burn days.
C8_SecondOfBurnDay ==
    pc \in {"filter", "done"} =>
        /\ \A k \in 1..Len(df) :
              /\ df[k].second_of_burn_day \in 0..86399
              /\ df[k].second_of_burn_day
                    = (Epoch(df[k].scan_start) - 3600 * break_hour_z) % 86400
              /\ (Epoch(df[k].scan_start) - 3600 * break_hour_z) % 86400 = 0
                    => df[k].second_of_burn_day = 0
        /\ break_hour_z = 12 =>
              \A k, l \in 1..Len(df) : \A g, h \in 1..Len(res) :
                 (/\ df[k].scan_start = T10
                  /\ df[l].scan_start = T14
                  /\ df[k] \in {res[g].data[j] : j \in 1..Len(res[g].data)}
                  /\ df[l] \in {res[h].data[j] : j \in 1..Len(res[h].data)})
                 => /\ df[k].second_of_burn_day = 79200
                    /\ df[l].second_of_burn_day = 7200
                    /\ res[h].day = res[g].day + 1

C8_Witness ==
    /\ pc = "filter"
    /\ break_hour_z = 12
    /\ \E k, l, m \in 1..Len(df) :
          /\ df[k].scan_start = T10
          /\ df[l].scan_start = T14
          /\ df[m].second_of_burn_day = 5415
    /\ Len(res) = 2

\* the day lies within the bounds that are given
InRange(day) ==
    /\ start # <<>> => start[1] <= day
    /\ end # <<>> => day <= end[1]

\* C9: __get_daily_data returns exactly the groups whose day lies within the
\* given bounds, both inclusive, in their order and unchanged; with no bound
\* it returns every group; the satellite label is that of the frame whatever
\* the bounds.
C9_DayRangeInclusive ==
    pc = "done" =>
        /\ daily_data = SelectSeq(res, LAMBDA g : InRange(g.day))
        /\ (start = <<>> /\ end = <<>>) => daily_data = res
        /\ sat = satellite

\* both bounds given, a group on each bound kept, a group dropped
C9_Witness ==
    /\ pc = "done"
    /\ start # <<>>
    /\ end # <<>>
    /\ Len(res) = 3
    /\ Len(daily_data) = 2
    /\ daily_data[1].day = start[1]
    /\ daily_data[2].day = end[1]

----------------------------------------------------------------------------
(* make_daily_fire_power_plot, lines 136-211.                              *)
(*                                                                         *)
(* plt.subplots(n) returns an array of n Axes for n > 1 and, squeeze being *)
(* on by default, the one Axes object itself for n = 1: axs[0] on line 183 *)
(* then raises TypeError.  max() of no value at all (line 164) raises      *)
(* ValueError.  The property cycle of an Axes has ten colours; no more     *)
(* than MaxSeries are drawn here, so a colour is named by its draw number. *)

Range(seq) == {seq[k] : k \in 1..Len(seq)}

IndexOf(seq, x) == CHOOSE k \in 1..Len(seq) : seq[k] = x

Digits == <<"0", "1", "2", "3", "4", "5", "6", "7", "8", "9">>

RECURSIVE Str(_)
\* str(fid) of a positive integer: its decimal digits
Str(n) == IF n < 10 THEN <<Digits[n + 1]>> ELSE Str(n \div 10) \o <<Digits[(n % 10) + 1]>>

PlotFires == {1, 11}

\* satellite labels, by their characters
PlotSats == {<<"G", "1", "7">>, <<"1", "G", "1", "7">>}

\* 2023-05-31T23:59:59, 2023-06-01T14:00:00, 2023-06-02T14:00:00
PlotTimes == {1685577599, 1685628000, 1685714400}

\* the frames over PlotTimes, every row of a frame with the same power
PlotFrames ==
    {[k \in 1..Cardinality(T) |->
         [scan_start |-> to_datetime(SortedSeq(T)[k]),
          total_power |-> p,
          maximum_temperature |-> 1]]
     : T \in SUBSET PlotTimes, p \in Powers}

PlotBounds == {<<>>, <<19509>>}

\* key = str(fid) + str(sat), line 190
ColorKey(fid, s) == Str(fid) \o s

\* fault injection: the calendar keeps only the days every series has
AllDaysShared(dd) ==
    SortedSeq({d \in UNION {{dd[k][g].day : g \in 1..Len(dd[k])} : k \in 1..Len(dd)} :
                  \A k \in 1..Len(dd) : \E g \in 1..Len(dd[k]) : dd[k][g].day = d})

\* list(set(day ...)) and all_days.sort(), lines 168-170
AllDays(dd) ==
    SortedSeq(UNION {{dd[k][g].day : g \in 1..Len(dd[k])} : k \in 1..Len(dd)})

\* the values max() of line 164 runs over
PowerValues(dd) ==
    UNION {UNION {{dd[k][g].data[j].total_power : j \in 1..Len(dd[k][g].data)}
                  : g \in 1..Len(dd[k])} : k \in 1..Len(dd)}

RECURSIVE Pairs(_, _)
\* the (series, group) pairs in the order the loops of lines 188-189 meet them
Pairs(dd, k) ==
    IF k > Len(dd) THEN <<>>
    ELSE [g \in 1..Len(dd[k]) |-> <<k, g>>] \o Pairs(dd, k + 1)

InitPlot ==
    /\ db \in [PlotFires -> [satellite : PlotSats, frame : PlotFrames]]
    /\ fire_id \in UNION {[1..n -> PlotFires] : n \in 1..MaxSeries}
    /\ break_hour_z = 12
    /\ start \in PlotBounds
    /\ end \in PlotBounds
    /\ daily_datas = <<>>
    /\ sats = <<>>
    /\ max_power = 0
    /\ all_days = <<>>
    /\ axs = 0
    /\ colors = <<>>
    /\ draws = 0
    /\ plotted = <<>>
    /\ pc = "get_data"
    /\ closure = {}
    /\ df = <<>>
    /\ satellite = ""
    /\ res = <<>>
    /\ daily_data = <<>>
    /\ sat = ""
    /\ IdleClosure
    /\ IdleAgg

\* lines 160-162: __get_daily_data for every fire id
PlotGetData ==
    /\ pc = "get_data"
    /\ daily_datas' =
          [k \in 1..Len(fire_id) |->
              GetDailyData(
                  GroupBy(WithSecondOfBurnDay(db[fire_id[k]].frame, break_hour_z),
                          break_hour_z),
                  start, end)]
    /\ sats' = [k \in 1..Len(fire_id) |-> db[fire_id[k]].satellite]
    /\ pc' = "align"
    /\ UNCHANGED <<closureVars, closure, aggVars, df, dayVars, db, fire_id,
                   max_power, all_days, axs, colors, draws, plotted>>

\* line 164 with no row in any series: max() raises
PlotNoRows ==
    /\ pc = "align"
    /\ PowerValues(daily_datas) = {}
    /\ pc' = "ValueError"
    /\ UNCHANGED <<closureVars, closure, aggVars, df, dayVars, plotVars>>

\* lines 164-183 with a calendar of one day: subplots returns one Axes
PlotOnePanel ==
    /\ pc = "align"
    /\ PowerValues(daily_datas) # {}
    /\ max_power' = Max(PowerValues(daily_datas))
    /\ all_days' = AllDays(daily_datas)
    /\ Len(all_days') = 1
    /\ pc' = "TypeError"
    /\ UNCHANGED <<closureVars, closure, aggVars, df, dayVars, db, fire_id,
                   daily_datas, sats, axs, colors, draws, plotted>>

\* lines 164-187 with an array of panels: axs_dict pairs day k with panel k
PlotAlign ==
    /\ pc = "align"
    /\ PowerValues(daily_datas) # {}
    /\ max_power' = Max(PowerValues(daily_datas))
    /\ all_days' = AllDays(daily_datas)
    /\ Len(all_days') # 1
    /\ axs' = Len(all_days')
    /\ colors' = <<>>
    /\ pc' = IF axs' = 0 THEN "ValueError" ELSE "plot"
    /\ UNCHANGED <<closureVars, closure, aggVars, df, dayVars, db, fire_id,
                   daily_datas, sats, draws, plotted>>

\* one pass of the loop body, lines 190-201
PlotSeriesDay ==
    /\ pc = "plot"
    /\ Len(plotted) < Len(Pairs(daily_datas, 1))
    /\ LET kg == Pairs(daily_datas, 1)[Len(plotted) + 1]
           k == kg[1]
           day == daily_datas[k][kg[2]].day
           key == ColorKey(fire_id[k], sats[k])
           fresh == key \notin DOMAIN colors
           color == IF fresh THEN draws + 1 ELSE colors[key]
       IN  IF day \in Range(all_days) /\ IndexOf(all_days, day) <= axs
           THEN /\ colors' = IF fresh THEN colors @@ (key :> color) ELSE colors
                /\ draws' = IF fresh THEN draws + 1 ELSE draws
                /\ plotted' = Append(plotted,
                                 [series |-> k, fid |-> fire_id[k], sat |-> sats[k],
                                  day |-> day, key |-> key, color |-> color,
                                  panel |-> IndexOf(all_days, day)])
                /\ pc' = pc
           ELSE /\ pc' = "KeyError"
                /\ UNCHANGED <<colors, draws, plotted>>
    /\ UNCHANGED <<closureVars, closure, aggVars, df, dayVars, db, fire_id,
                   daily_datas, sats, max_power, all_days, axs>>

\* lines 203-211: the panels are decorated and the figure returned
PlotReturn ==
    /\ pc = "plot"
    /\ Len(plotted) = Len(Pairs(daily_datas, 1))
    /\ pc' = "done"
    /\ UNCHANGED <<closureVars, closure, aggVars, df, dayVars, plotVars>>

NextPlot ==
    PlotGetData \/ PlotNoRows \/ PlotOnePanel \/ PlotAlign \/ PlotSeriesDay \/ PlotReturn

SpecPlot == InitPlot /\ [][NextPlot]_vars

\* the burn days of series k after the day-range filter
SeriesDays(k) == {daily_datas[k][g].day : g \in 1..Len(daily_datas[k])}

UnionDays == UNION {SeriesDays(k) : k \in 1..Len(daily_datas)}

Raised == {"ValueError", "TypeError", "KeyError"}

Ascending(seq) == \A k \in 1..(Len(seq) - 1) : seq[k] < seq[k + 1]

\* C6: with several fire ids the calendar is the duplicate-free ascending
\* union of the series' filtered burn days, every (day, series) pair of some
\* series is plotted on exactly one panel, the one of its day, and the call
\* does not raise when some series has a day (also one another series lacks).
C6_UnionCalendarPanels ==
    (Len(fire_id) >= 2 /\ pc \notin {"get_data", "align"}) =>
        /\ UnionDays # {} =>
              /\ Range(all_days) = UnionDays
              /\ Ascending(all_days)
        /\ UnionDays # {} => pc \notin Raised
        /\ pc = "done" =>
              \A k \in 1..Len(daily_datas) : \A d \in SeriesDays(k) :
                 /\ Cardinality({n \in 1..Len(plotted) :
                        plotted[n].series = k /\ plotted[n].day = d}) = 1
                 /\ \A n \in 1..Len(plotted) :
                        (plotted[n].series = k /\ plotted[n].day = d)
                        => all_days[plotted[n].panel] = d

\* C7 as stated: two fire ids are aligned on the days both series have.
C7_TwoSeriesSharedDays ==
    (Len(fire_id) = 2 /\ pc \in {"plot", "done"}) =>
        Range(all_days) = SeriesDays(1) \cap SeriesDays(2)

\* C7 as amended: two fire ids are aligned like any number of them, on the
\* ascending union of the burn days of both series; a day only one of them
\* has is kept, with a panel of its own.
C7_TwoSeriesUnion ==
    (Len(fire_id) = 2 /\ pc \in {"plot", "done", "TypeError"}) =>
        /\ Range(all_days) = SeriesDays(1) \cup SeriesDays(2)
        /\ Ascending(all_days)
        /\ pc = "done" =>
              \A d \in SeriesDays(1) \cup SeriesDays(2) :
                 \E n \in 1..Len(plotted) : plotted[n].day = d

\* two series with one shared day and one day each of their own, all plotted
C7_Witness ==
    /\ pc = "done"
    /\ Len(fire_id) = 2
    /\ Cardinality(SeriesDays(1) \cap SeriesDays(2)) = 1
    /\ SeriesDays(1) \ SeriesDays(2) # {}
    /\ SeriesDays(2) \ SeriesDays(1) # {}
    /\ Len(all_days) = 3
    /\ Len(plotted) = 4

\* C10: the colour map is keyed by the (fire_id, satellite) pair: the same
\* pair always gets the colour first given to it, and different pairs never
\* share a colour key, each getting a colour drawn for it.
C10_ColourKeyedByPair ==
    \A m, n \in 1..Len(plotted) :
        /\ (plotted[m].fid = plotted[n].fid /\ plotted[m].sat = plotted[n].sat)
              => plotted[m].color = plotted[n].color
        /\ (plotted[m].fid # plotted[n].fid \/ plotted[m].sat # plotted[n].sat)
              => /\ plotted[m].key # plotted[n].key
                 /\ plotted[m].color # plotted[n].color

====
